---- MODULE Spec2Model ----
(***************************************************************************)
(* A model of skfem/mesh/base_mesh.py: the mesh value (doflocs, t), its    *)
(* lazily cached entity tables (facets, t2f, f2t, edges, t2e), the entity  *)
(* builder and inverse mapper, uniform refinement of the four element      *)
(* families and adaptive refinement of triangles.                          *)
(*                                                                         *)
(* Arrays.  A 2-D numpy array is a sequence of rows, so numpy's a[i, j] is *)
(* a[i + 1][j + 1] here.  All VALUES stored in arrays (vertex, facet, edge *)
(* and element indices) are 0-based as in numpy, -1 is build_inverse's     *)
(* sentinel.  Coordinates are integers: every input coordinate is a        *)
(* multiple of a power of two large enough that each midpoint / centroid   *)
(* the refinements compute is an integer, so the floating point means are  *)
(* exact and \div models them.                                             *)
(***************************************************************************)
EXTENDS Integers, Sequences, FiniteSets, TLC

VARIABLES
    elem,       \* element family of the instance: "tri", "quad", "tet", "hex"
    doflocs,    \* self.doflocs (= self.p): dim rows, one column per vertex
    t,          \* self.t: one row per local vertex, one column per element
    _facets,    \* cached self._facets, <<>> while the attribute is absent
    _t2f,       \* cached self._t2f
    _f2t,       \* cached self._f2t
    _edges,     \* cached self._edges
    _t2e,       \* cached self._t2e
    pc,         \* "idle": between calls; "returned": a call has just returned
    ret,        \* what the last call returned (or raised)
    old         \* doflocs and t of the instance as they were when the call began

vars == <<elem, doflocs, t, _facets, _t2f, _f2t, _edges, _t2e, pc, ret, old>>

-----------------------------------------------------------------------------
(* numpy helpers *)

\* A function constructor is held unevaluated and re-evaluated at every
\* application; Vec and Arr give the same 1-D and 2-D array as an explicit tuple.
Vec(r) == r \o <<>>

Arr(a) == [i \in 1..Len(a) |-> Vec(a[i])] \o <<>>

\* a[i] for a 0-based row index
Row(a, i) == a[i + 1]

\* a.shape[1]
ncols(a) == IF Len(a) = 0 THEN 0 ELSE Len(a[1])

\* a[:, j] for a 0-based column index
Col(a, j) == Vec([i \in 1..Len(a) |-> a[i][j + 1]])

\* the set of values of a 1-D array
Range(s) == {s[i] : i \in 1..Len(s)}

\* row + c (broadcast)
Plus(r, c) == Vec([j \in 1..Len(r) |-> r[j] + c])

\* arange(n) + c
ArangeFrom(n, c) == Vec([j \in 1..n |-> j - 1 + c])

\* r[mask] for a boolean mask
Masked(r, mask) ==
    LET idx == SelectSeq([j \in 1..Len(r) |-> j], LAMBDA j : mask[j])
    IN  Vec([k \in 1..Len(idx) |-> r[idx[k]]])

RECURSIVE ConcatAll(_)
ConcatAll(ss) == IF Len(ss) = 0 THEN <<>> ELSE Head(ss) \o ConcatAll(Tail(ss))

\* np.hstack of 2-D blocks with the same number of rows
hstack(blocks) ==
    Arr([i \in 1..Len(blocks[1]) |-> ConcatAll([k \in 1..Len(blocks) |-> blocks[k][i]])])

RECURSIVE SumSeq(_)
SumSeq(s) == IF Len(s) = 0 THEN 0 ELSE Head(s) + SumSeq(Tail(s))

\* np.max of a 2-D array
MaxOf(a) == CHOOSE x \in UNION {Range(a[i]) : i \in 1..Len(a)} :
                \A y \in UNION {Range(a[i]) : i \in 1..Len(a)} : y <= x

\* np.sum(p[:, ent], axis=1): per coordinate row and per entity, the sum of the
\* entity's vertices' coordinates
SumOver(p, ent) ==
    Arr([d \in 1..Len(p) |->
        [f \in 1..ncols(ent) |-> SumSeq([r \in 1..Len(ent) |-> p[d][ent[r][f] + 1]])]])

\* p[:, ent].mean(axis=1)
MeanOver(p, ent) ==
    Arr([d \in 1..Len(p) |->
        [f \in 1..ncols(ent) |->
            SumSeq([r \in 1..Len(ent) |-> p[d][ent[r][f] + 1]]) \div Len(ent)]])

\* np.sort of one column
SortCol(c) == SortSeq(c, LAMBDA a, b : a < b)

\* the order np.unique(axis=1) sorts columns in
LexLess(a, b) ==
    \E i \in 1..Len(a) : a[i] < b[i] /\ \A j \in 1..(i - 1) : a[j] = b[j]

-----------------------------------------------------------------------------
(* EntityBuilder and InverseMapper.  Each intermediate array of the source  *)
(* is computed once and handed to the next step as a parameter.             *)

\* indexing = np.hstack(tuple([t[ix] for ix in indices])), as its columns
\* (pattern by pattern, element by element)
indexing_columns(tt, indices) ==
    Arr([k \in 1..(Len(indices) * ncols(tt)) |->
        [j \in 1..Len(indices[1]) |->
            tt[indices[((k - 1) \div ncols(tt)) + 1][j] + 1][((k - 1) % ncols(tt)) + 1]]])

\* the columns left as they are
sorted_columns_none(indexing) == indexing

\* np.sort(indexing, axis=0)
sorted_columns(indexing) == Arr([k \in 1..Len(indexing) |-> SortCol(indexing[k])])

\* np.unique(axis=1, return_index=True): the first occurrence of each distinct
\* sorted column, the columns in lexicographic order (1-based positions)
unique_index(sorted_indexing) ==
    SortSeq(SelectSeq([k \in 1..Len(sorted_indexing) |-> k],
                      LAMBDA k : \A j \in 1..(k - 1) :
                                    sorted_indexing[j] # sorted_indexing[k]),
            LAMBDA a, b : LexLess(sorted_indexing[a], sorted_indexing[b]))

\* np.unique(axis=1, return_inverse=True): the index of each column's entity
unique_inverse(sorted_indexing, ixa) ==
    Vec([k \in 1..Len(sorted_indexing) |->
           (CHOOSE j \in 1..Len(ixa) : sorted_indexing[ixa[j]] = sorted_indexing[k]) - 1])

\* ixb.reshape((len(indices), t.shape[1]))
reshape(ixb, nrows, nt) == Arr([i \in 1..nrows |-> [e \in 1..nt |-> ixb[(i - 1) * nt + e]]])

\* np.ascontiguousarray(indexing[:, ixa]), mapping
entities_of(indexing, sorted_indexing, ixa, nrows, nt) ==
    <<Arr([r \in 1..Len(indexing[1]) |-> [j \in 1..Len(ixa) |-> indexing[ixa[j]][r]]]),
      reshape(unique_inverse(sorted_indexing, ixa), nrows, nt)>>

unique_columns(indexing, sorted_indexing, nrows, nt) ==
    entities_of(indexing, sorted_indexing, unique_index(sorted_indexing), nrows, nt)

sort_and_unique(indexing, nrows, nt) ==
    unique_columns(indexing, sorted_columns(indexing), nrows, nt)

\* BaseMesh.build_entities: <<entity table, element-to-entity map>>
build_entities(tt, indices) ==
    sort_and_unique(indexing_columns(tt, indices), Len(indices), ncols(tt))

\* inverse after its rows 0 and 1 are filled from the first and the last
\* occurrence of each entity in e, before the sentinel is written
first_and_last(e, tix, n) ==
    LET occ(f) == {k \in 1..Len(e) : e[k] = f}
        ix_first(f) == CHOOSE k \in occ(f) : \A j \in occ(f) : k <= j
        ix_last(f) == CHOOSE k \in occ(f) : \A j \in occ(f) : j <= k
    IN  <<Vec([f \in 1..n |-> IF occ(f - 1) = {} THEN 0 ELSE tix[ix_first(f - 1)]]),
          Vec([f \in 1..n |-> IF occ(f - 1) = {} THEN 0 ELSE tix[ix_last(f - 1)]])>>

\* no sentinel written
with_sentinel_none(inverse) == inverse

\* inverse[1, np.nonzero(inverse[0] == inverse[1])[0]] = -1
with_sentinel(inverse) ==
    <<inverse[1],
      Vec([f \in 1..Len(inverse[1]) |->
             IF inverse[1][f] = inverse[2][f] THEN -1 ELSE inverse[2][f]])>>

\* BaseMesh.build_inverse: e = mapping.flatten(order='C'),
\* tix = np.tile(np.arange(t.shape[1]), (1, t.shape[0]))[0]
build_inverse(tt, mapping) ==
    with_sentinel(first_and_last(ConcatAll(mapping),
                                 Vec([k \in 1..(ncols(tt) * Len(tt)) |-> (k - 1) % ncols(tt)]),
                                 MaxOf(mapping) + 1))

-----------------------------------------------------------------------------
(* Reference domains.  The element classes (skfem/element) are imported by  *)
(* base_mesh.py; their local entity patterns are the ones the refinement    *)
(* templates below are written against: sort_mesh's "(0, 2) the longest     *)
(* edge" is local facet 2, the tetrahedron's t2e[0..5] are the edges 01, 12,*)
(* 02, 03, 13, 23 of its corner tetrahedra, and likewise for the others.    *)

refdom_facets(el) ==
    CASE el = "tri"  -> << <<0, 1>>, <<1, 2>>, <<0, 2>> >>
      [] el = "quad" -> << <<0, 1>>, <<1, 2>>, <<2, 3>>, <<0, 3>> >>
      [] el = "tet"  -> << <<0, 1, 2>>, <<0, 1, 3>>, <<0, 2, 3>>, <<1, 2, 3>> >>
      [] el = "hex"  -> << <<0, 1, 4, 2>>, <<0, 2, 6, 3>>, <<0, 3, 5, 1>>,
                           <<2, 4, 7, 6>>, <<1, 5, 7, 4>>, <<3, 6, 7, 5>> >>

refdom_edges(el) ==
    CASE el = "tet"  -> << <<0, 1>>, <<1, 2>>, <<0, 2>>, <<0, 3>>, <<1, 3>>, <<2, 3>> >>
      [] el = "hex"  -> << <<0, 1>>, <<0, 2>>, <<0, 3>>, <<1, 4>>, <<1, 5>>, <<2, 4>>,
                           <<2, 6>>, <<3, 5>>, <<3, 6>>, <<4, 7>>, <<5, 7>>, <<6, 7>> >>

\* BaseMesh.dim
dim(el) == IF el \in {"tri", "quad"} THEN 2 ELSE 3

-----------------------------------------------------------------------------
(* The mesh value and its lazily cached tables *)

\* the dataclass constructor (also dataclasses.replace(self, doflocs=, t=)):
\* a new instance, none of the cache attributes set.  __post_init__ reorders
\* only when t has more rows than the family has vertices, which no mesh
\* built here has.
Mesh(el, p, tt) ==
    [elem |-> el, doflocs |-> p, t |-> tt,
     _facets |-> <<>>, _t2f |-> <<>>, _f2t |-> <<>>, _edges |-> <<>>, _t2e |-> <<>>]

\* hasattr(self, name)
hasattr(x) == x # <<>>

\* self._facets, self._t2f = entities
set_facets(m, entities) == [m EXCEPT !._facets = entities[1], !._t2f = entities[2]]

\* self._edges, self._t2e = entities
set_edges(m, entities) == [m EXCEPT !._edges = entities[1], !._t2e = entities[2]]

_init_facets(m) == set_facets(m, build_entities(m.t, refdom_facets(m.elem)))

_init_edges(m) == set_edges(m, build_entities(m.t, refdom_edges(m.elem)))

\* the properties: each gives the instance as the read leaves it; the value
\* read is then the cache field
with_facets(m) == IF hasattr(m._facets) THEN m ELSE _init_facets(m)

with_t2f(m) == IF hasattr(m._t2f) THEN m ELSE _init_facets(m)

\* self._f2t = self.build_inverse(self.t, self.t2f), t2f read already
set_f2t(m) == [m EXCEPT !._f2t = build_inverse(m.t, m._t2f)]

with_f2t(m) == IF hasattr(m._f2t) THEN m ELSE set_f2t(with_t2f(m))

with_edges(m) == IF hasattr(m._edges) THEN m ELSE _init_edges(m)

with_t2e(m) == IF hasattr(m._t2e) THEN m ELSE _init_edges(m)

-----------------------------------------------------------------------------
(* MeshTri1 *)

\* MeshTri1._uniform, self's facets and t2f read: <<self, the mesh returned>>
tri_uniform(m) ==
    LET p == m.doflocs
        tt == m.t
        t2f == m._t2f
        sz == ncols(m.doflocs)
    IN  <<m, Mesh(m.elem,
             hstack(<<p, MeanOver(p, m._facets)>>),
             hstack(<<
               <<Row(tt, 0), Plus(Row(t2f, 0), sz), Plus(Row(t2f, 2), sz)>>,
               <<Row(tt, 1), Plus(Row(t2f, 0), sz), Plus(Row(t2f, 1), sz)>>,
               <<Row(tt, 2), Plus(Row(t2f, 2), sz), Plus(Row(t2f, 1), sz)>>,
               <<Plus(Row(t2f, 0), sz), Plus(Row(t2f, 1), sz), Plus(Row(t2f, 2), sz)>>
             >>))>>

\* MeshTri1._uniform
MeshTri1_uniform(m) == tri_uniform(with_facets(with_t2f(m)))

\* the squared length of the edge between local vertices a and b of element e
\* (1-based column).  sort_mesh compares np.sqrt of it; sqrt is increasing and
\* distinct integers of this size have distinct square roots in float64.
sqlen(p, tt, a, b, e) ==
    SumSeq([d \in 1..Len(p) |->
              (p[d][tt[a + 1][e] + 1] - p[d][tt[b + 1][e] + 1])
            * (p[d][tt[a + 1][e] + 1] - p[d][tt[b + 1][e] + 1])])

\* t with rows a and b swapped in the columns of the mask
SwapRows(tt, a, b, mask) ==
    Arr([i \in 1..Len(tt) |->
        [e \in 1..Len(tt[i]) |->
            IF ~mask[e] THEN tt[i][e]
            ELSE IF i = a + 1 THEN tt[b + 1][e]
            ELSE IF i = b + 1 THEN tt[a + 1][e]
            ELSE tt[i][e]]])

\* ix01 = (l01 > l02) * (l01 > l12)
sort_ix01(p, tt) ==
    Vec([e \in 1..ncols(tt) |->
           sqlen(p, tt, 0, 1, e) > sqlen(p, tt, 0, 2, e)
        /\ sqlen(p, tt, 0, 1, e) > sqlen(p, tt, 1, 2, e)])

\* ix12 = (l12 > l01) * (l12 > l02)
sort_ix12(p, tt) ==
    Vec([e \in 1..ncols(tt) |->
           sqlen(p, tt, 1, 2, e) > sqlen(p, tt, 0, 1, e)
        /\ sqlen(p, tt, 1, 2, e) > sqlen(p, tt, 0, 2, e)])

\* MeshTri1._adaptive.sort_mesh: the array t holds when it returns (it writes
\* into the array it is given); both masks are computed before the swaps
sort_mesh(p, tt) ==
    SwapRows(SwapRows(tt, 2, 1, sort_ix01(p, tt)), 0, 1, sort_ix12(p, tt))

\* np.count_nonzero
count_nonzero(facets) == Cardinality({f \in 1..Len(facets) : facets[f] # 0})

\* local edge 2 set only where local edges 0 and 1 are both flagged
find_t2facets_both(t2f, facets) ==
    Arr([i \in 1..3 |-> [e \in 1..ncols(t2f) |->
           IF i = 3 /\ facets[t2f[1][e] + 1] + facets[t2f[2][e] + 1] > 1
           THEN 1 ELSE facets[t2f[i][e] + 1]]])

\* t2facets = facets[m.t2f]; t2facets[2, t2facets[0, :] + t2facets[1, :] > 0] = 1
find_t2facets(t2f, facets) ==
    Arr([i \in 1..3 |-> [e \in 1..ncols(t2f) |->
           IF i = 3 /\ facets[t2f[1][e] + 1] + facets[t2f[2][e] + 1] > 0
           THEN 1 ELSE facets[t2f[i][e] + 1]]])

\* a pass that also clears the flag of facet 0
find_flag_clearing(t2f, facets, t2facets) ==
    Vec([f \in 1..Len(facets) |->
           IF f = 1 THEN 0
           ELSE IF \E i \in 1..3, e \in 1..ncols(t2f) : t2facets[i][e] = 1 /\ t2f[i][e] = f - 1
           THEN 1 ELSE facets[f]])

\* facets[m.t2f[t2facets == 1]] = 1
find_flag(t2f, facets, t2facets) ==
    Vec([f \in 1..Len(facets) |->
           IF \E i \in 1..3, e \in 1..ncols(t2f) : t2facets[i][e] = 1 /\ t2f[i][e] = f - 1
           THEN 1 ELSE facets[f]])

\* one pass of find_facets' loop body
find_pass(t2f, facets) == find_flag(t2f, facets, find_t2facets(t2f, facets))

RECURSIVE find_loop(_, _, _)
find_loop(t2f, facets, prev_nnz) ==
    IF count_nonzero(facets) - prev_nnz > 0
    THEN find_loop(t2f, find_pass(t2f, facets), count_nonzero(facets))
    ELSE facets

\* the value of facets each time the loop condition is evaluated: the first
\* entry is the flags the loop starts from, the last the flags it ends with,
\* and there is one pass between consecutive entries
RECURSIVE find_trace(_, _, _)
find_trace(t2f, facets, prev_nnz) ==
    IF count_nonzero(facets) - prev_nnz > 0
    THEN <<facets>> \o find_trace(t2f, find_pass(t2f, facets), count_nonzero(facets))
    ELSE <<facets>>

\* every facet flagged at the start
find_start_all(m, marked_elems) == Vec([f \in 1..ncols(m._facets) |-> 1])

\* facets = np.zeros(...); facets[m.t2f[:, marked_elems].flatten('F')] = 1
find_start(m, marked_elems) ==
    Vec([f \in 1..ncols(m._facets) |->
           IF \E i \in 1..3, e \in marked_elems : m._t2f[i][e + 1] = f - 1 THEN 1 ELSE 0])

\* MeshTri1._adaptive.find_facets, m's facets and t2f read; marked_elems is the
\* set of marked elements.  prev_nnz starts at -1e10: any value below zero
\* enters the loop.
find_facets(m, marked_elems) == find_loop(m._t2f, find_start(m, marked_elems), -1)

\* ix = (-1) * ones; ix[facets == 1] = arange(count_nonzero(facets)) + m.p.shape[1];
\* ix = ix[m.t2f]
split_ix(m, facets) ==
    Arr([i \in 1..3 |-> [e \in 1..ncols(m.t) |->
           IF facets[m._t2f[i][e] + 1] = 1
           THEN Cardinality({g \in 1..m._t2f[i][e] : facets[g] = 1}) + ncols(m.doflocs)
           ELSE -1]])

\* the new nodes: p = .5 * (m.p[:, m.facets[0, facets == 1]] + m.p[:, m.facets[1, facets == 1]])
split_nodes(m, split) ==
    Arr([d \in 1..Len(m.doflocs) |-> [k \in 1..Len(split) |->
           (m.doflocs[d][m._facets[1][split[k]] + 1]
            + m.doflocs[d][m._facets[2][split[k]] + 1]) \div 2]])

\* a blue1 mask that selects nothing
split_blue1_none(ix) == Vec([e \in 1..ncols(ix) |-> FALSE])

\* red, blue1, blue2, green, rest
split_red(ix)   == Vec([e \in 1..ncols(ix) |-> ix[1][e] >= 0 /\ ix[2][e] >= 0 /\ ix[3][e] >= 0])
split_blue1(ix) == Vec([e \in 1..ncols(ix) |-> ix[1][e] = -1 /\ ix[2][e] >= 0 /\ ix[3][e] >= 0])
split_blue2(ix) == Vec([e \in 1..ncols(ix) |-> ix[1][e] >= 0 /\ ix[2][e] = -1 /\ ix[3][e] >= 0])
split_green(ix) == Vec([e \in 1..ncols(ix) |-> ix[1][e] = -1 /\ ix[2][e] = -1 /\ ix[3][e] >= 0])
split_rest(ix)  == Vec([e \in 1..ncols(ix) |-> ix[1][e] = -1 /\ ix[2][e] = -1 /\ ix[3][e] = -1])

\* m.t[i, mask] and ix[i, mask]
T_(tt, i, mask) == Masked(Row(tt, i), mask)

t_rest(tt, rest) == <<T_(tt, 0, rest), T_(tt, 1, rest), T_(tt, 2, rest)>>

t_red(tt, ix, red) ==
    hstack(<<
        <<T_(tt, 0, red), T_(ix, 0, red), T_(ix, 2, red)>>,
        <<T_(tt, 1, red), T_(ix, 0, red), T_(ix, 1, red)>>,
        <<T_(tt, 2, red), T_(ix, 1, red), T_(ix, 2, red)>>,
        <<T_(ix, 1, red), T_(ix, 2, red), T_(ix, 0, red)>> >>)

t_blue1(tt, ix, blue1) ==
    hstack(<<
        <<T_(tt, 1, blue1), T_(tt, 0, blue1), T_(ix, 2, blue1)>>,
        <<T_(tt, 1, blue1), T_(ix, 1, blue1), T_(ix, 2, blue1)>>,
        <<T_(tt, 2, blue1), T_(ix, 2, blue1), T_(ix, 1, blue1)>> >>)

t_blue2(tt, ix, blue2) ==
    hstack(<<
        <<T_(tt, 0, blue2), T_(ix, 0, blue2), T_(ix, 2, blue2)>>,
        <<T_(ix, 2, blue2), T_(ix, 0, blue2), T_(tt, 1, blue2)>>,
        <<T_(tt, 2, blue2), T_(ix, 2, blue2), T_(tt, 1, blue2)>> >>)

\* a green template that leaves the element whole
t_green_whole(tt, ix, green) == t_rest(tt, green)

t_green(tt, ix, green) ==
    hstack(<<
        <<T_(tt, 1, green), T_(ix, 2, green), T_(tt, 0, green)>>,
        <<T_(tt, 2, green), T_(ix, 2, green), T_(tt, 1, green)>> >>)

\* the connectivity split_elements returns
split_t(tt, ix) ==
    hstack(<<t_rest(tt, split_rest(ix)),
             t_red(tt, ix, split_red(ix)),
             t_blue1(tt, ix, split_blue1(ix)),
             t_blue2(tt, ix, split_blue2(ix)),
             t_green(tt, ix, split_green(ix))>>)

\* MeshTri1._adaptive.split_elements, m's facets and t2f read: <<doflocs, t>>
split_elements(m, facets) ==
    <<hstack(<<m.doflocs,
               split_nodes(m, SelectSeq([f \in 1..Len(facets) |-> f],
                                        LAMBDA f : facets[f] = 1))>>),
      split_t(m.t, split_ix(m, facets))>>

\* return replace(self, doflocs=doflocs, t=t), after sort_mesh has written
\* sorted_t into self.t
adaptive_of(m, sorted_t, pt) == <<[m EXCEPT !.t = sorted_t], Mesh(m.elem, pt[1], pt[2])>>

\* find_facets and split_elements on sorted_mesh, whose facets and t2f
\* find_facets reads first
adaptive_on(m, marked, sorted_mesh) ==
    adaptive_of(m, sorted_mesh.t, split_elements(sorted_mesh, find_facets(sorted_mesh, marked)))

\* MeshTri1._adaptive: <<self after the call, the mesh returned>>.  sort_mesh is
\* handed self.t itself and swaps its rows in place, so self.t is the sorted
\* array afterwards; self's cached tables are not touched.  sorted_mesh is a
\* new instance (dataclasses.replace) over that same array.
MeshTri1_adaptive(m, marked) ==
    adaptive_on(m, marked, with_facets(Mesh(m.elem, m.doflocs, sort_mesh(m.doflocs, m.t))))

-----------------------------------------------------------------------------
(* MeshQuad1, MeshTet1, MeshHex1 *)

\* MeshQuad1._uniform, self's t2f and facets read: <<self, the mesh returned>>
quad_uniform(m) ==
    LET p == m.doflocs
        tt == m.t
        sz == ncols(m.doflocs)
        mid == ArangeFrom(ncols(m.t), MaxOf(m._t2f) + ncols(m.doflocs) + 1)
        F(i) == Plus(Row(m._t2f, i), ncols(m.doflocs))
    IN  <<m, Mesh(m.elem,
             hstack(<<p, MeanOver(p, m._facets), MeanOver(p, tt)>>),
             hstack(<<
               <<Row(tt, 0), F(0), mid, F(3)>>,
               <<F(0), Row(tt, 1), F(1), mid>>,
               <<mid, F(1), Row(tt, 2), F(2)>>,
               <<F(3), mid, F(2), Row(tt, 3)>> >>))>>

\* MeshQuad1._uniform
MeshQuad1_uniform(m) == quad_uniform(with_facets(with_t2f(m)))

\* the squared length of the octahedron diagonal between the midpoints of
\* local edges a and b, from coordinate rows 0 and 1 only
tet_diagonal(newp, t2e, a, b, e) ==
      (newp[1][t2e[a + 1][e] + 1] - newp[1][t2e[b + 1][e] + 1])
    * (newp[1][t2e[a + 1][e] + 1] - newp[1][t2e[b + 1][e] + 1])
    + (newp[2][t2e[a + 1][e] + 1] - newp[2][t2e[b + 1][e] + 1])
    * (newp[2][t2e[a + 1][e] + 1] - newp[2][t2e[b + 1][e] + 1])

\* case 1 whatever the diagonals are
tet_case_first(d1, d2, d3) == <<TRUE, FALSE, FALSE>>

\* cases that each need a strictly shortest diagonal
tet_case_strict(d1, d2, d3) ==
    <<(d1 < d2) /\ (d1 < d3), (d2 < d1) /\ (d2 < d3), (d3 < d1) /\ (d3 < d2)>>

\* c1, c2, c3 from d1, d2, d3
tet_case(d1, d2, d3) ==
    <<(d1 < d2) /\ (d1 < d3), (~(d1 < d2)) /\ (d2 < d3), (~(d1 < d3)) /\ (~(d2 < d3))>>

\* per element <<c1, c2, c3>>
tet_cases(newp, t2e) ==
    Vec([e \in 1..ncols(t2e) |->
           tet_case(tet_diagonal(newp, t2e, 2, 4, e),
                    tet_diagonal(newp, t2e, 1, 3, e),
                    tet_diagonal(newp, t2e, 0, 5, e))])

\* newp = np.hstack((p, the midpoints of the edges))
tet_newp(p, e) ==
    hstack(<<p, Arr([d \in 1..3 |-> [k \in 1..ncols(e) |->
                      (p[d][e[1][k] + 1] + p[d][e[2][k] + 1]) \div 2]])>>)

\* newt, from t, t2e = self.t2e + sz and the cases
tet_newt(tt, t2e, cs) ==
    LET c1 == Vec([k \in 1..ncols(tt) |-> cs[k][1]])
        c2 == Vec([k \in 1..ncols(tt) |-> cs[k][2]])
        c3 == Vec([k \in 1..ncols(tt) |-> cs[k][3]])
        B(a, b, c, d, mask) ==
            <<T_(t2e, a, mask), T_(t2e, b, mask), T_(t2e, c, mask), T_(t2e, d, mask)>>
    IN  hstack(<<
          <<Row(tt, 0), Row(t2e, 0), Row(t2e, 2), Row(t2e, 3)>>,
          <<Row(tt, 1), Row(t2e, 0), Row(t2e, 1), Row(t2e, 4)>>,
          <<Row(tt, 2), Row(t2e, 1), Row(t2e, 2), Row(t2e, 5)>>,
          <<Row(tt, 3), Row(t2e, 3), Row(t2e, 4), Row(t2e, 5)>>,
          \* case 1: diagonal [2,4]
          B(2, 4, 0, 1, c1), B(2, 4, 0, 3, c1), B(2, 4, 1, 5, c1), B(2, 4, 3, 5, c1),
          \* case 2: diagonal [1,3]
          B(1, 3, 0, 4, c2), B(1, 3, 4, 5, c2), B(1, 3, 5, 2, c2), B(1, 3, 2, 0, c2),
          \* case 3: diagonal [0,5]
          B(0, 5, 1, 4, c3), B(0, 5, 4, 3, c3), B(0, 5, 3, 2, c3), B(0, 5, 2, 1, c3)
        >>)

\* <<self, the mesh returned>>
tet_mesh(m, newp, t2e) == <<m, Mesh(m.elem, newp, tet_newt(m.t, t2e, tet_cases(newp, t2e)))>>

\* t2e = self.t2e without the offset sz
tet_uniform_unshifted(m) == tet_mesh(m, tet_newp(m.doflocs, m._edges), m._t2e)

\* MeshTet1._uniform, self's edges and t2e read
tet_uniform(m) ==
    tet_mesh(m, tet_newp(m.doflocs, m._edges),
             Arr([i \in 1..6 |-> Plus(m._t2e[i], ncols(m.doflocs))]))

\* MeshTet1._uniform
MeshTet1_uniform(m) == tet_uniform(with_t2e(with_edges(m)))

\* <<self, the mesh MeshHex1._uniform returns>>, built from t2e = self.t2e + sz,
\* t2f = self.t2f + np.max(t2e) + 1 and mid = range(nt) + np.max(t2f) + 1
hex_mesh(m, t2e, t2f, mid) ==
    LET p == m.doflocs
        Quot(a, q) == Arr([d \in 1..Len(a) |-> [k \in 1..Len(a[d]) |-> a[d][k] \div q]])
        T(i) == Row(m.t, i)
        E(i) == Row(t2e, i)
        F(i) == Row(t2f, i)
    IN  <<m, Mesh(m.elem,
             hstack(<<p,
                      Quot(SumOver(p, m._edges), 2),
                      Quot(SumOver(p, m._facets), 4),
                      Quot(SumOver(p, m.t), 8)>>),
             hstack(<<
               <<T(0), E(0), E(1), E(2), F(0), F(2), F(1), mid>>,
               <<E(0), T(1), F(0), F(2), E(3), E(4), mid, F(4)>>,
               <<E(1), F(0), T(2), F(1), E(5), mid, E(6), F(3)>>,
               <<E(2), F(2), F(1), T(3), mid, E(7), E(8), F(5)>>,
               <<F(0), E(3), E(5), mid, T(4), F(4), F(3), E(9)>>,
               <<F(2), E(4), mid, E(7), F(4), T(5), F(5), E(10)>>,
               <<F(1), mid, E(6), E(8), F(3), F(5), T(6), E(11)>>,
               <<mid, F(4), F(3), F(5), E(9), E(10), E(11), T(7)>> >>))>>

hex_numbered(m, t2e, t2f) == hex_mesh(m, t2e, t2f, ArangeFrom(ncols(m.t), MaxOf(t2f) + 1))

hex_edges_numbered(m, t2e) ==
    hex_numbered(m, t2e, Arr([i \in 1..6 |-> Plus(m._t2f[i], MaxOf(t2e) + 1)]))

\* MeshHex1._uniform, self's t2e, t2f, edges and facets read
hex_uniform(m) ==
    hex_edges_numbered(m, Arr([i \in 1..12 |-> Plus(m._t2e[i], ncols(m.doflocs))]))

\* MeshHex1._uniform
MeshHex1_uniform(m) == hex_uniform(with_facets(with_edges(with_t2f(with_t2e(m)))))

-----------------------------------------------------------------------------
(* BaseMesh operations *)

\* self._uniform(), dispatched on the class
_uniform(m) ==
    CASE m.elem = "tri"  -> MeshTri1_uniform(m)
      [] m.elem = "quad" -> MeshQuad1_uniform(m)
      [] m.elem = "tet"  -> MeshTet1_uniform(m)
      [] m.elem = "hex"  -> MeshHex1_uniform(m)

RECURSIVE uniform_times(_, _)
uniform_times(m, n) == IF n = 0 THEN m ELSE uniform_times(_uniform(m)[2], n - 1)

\* m = self; m = m._uniform() for the first pass, on self
refined_first(first, times) == <<first[1], uniform_times(first[2], times - 1)>>

\* BaseMesh.refined with an int: <<self after the call, the mesh returned>>.
\* Only the first _uniform runs on self; refined(0) returns self.
refined_int(m, times) ==
    IF times <= 0 THEN <<m, m>> ELSE refined_first(_uniform(m), times)

\* BaseMesh.scaled: the doflocs of the mesh returned, or the error raised.
\* doflocs[itr] for itr past the last row raises IndexError.
scaled(m, factors) ==
    IF Len(factors) > Len(m.doflocs)
    THEN [err |-> "IndexError", doflocs |-> <<>>]
    ELSE [err |-> "",
          doflocs |-> Arr([itr \in 1..Len(factors) |->
                         [v \in 1..Len(m.doflocs[itr]) |-> m.doflocs[itr][v] * factors[itr]]])]

\* BaseMesh.translated
translated(m, diffs) ==
    IF Len(diffs) > Len(m.doflocs)
    THEN [err |-> "IndexError", doflocs |-> <<>>]
    ELSE [err |-> "",
          doflocs |-> Arr([itr \in 1..Len(diffs) |->
                         [v \in 1..Len(m.doflocs[itr]) |-> m.doflocs[itr][v] + diffs[itr]]])]

\* np.nonzero(row == x)[0]
nonzero_eq(row, x) ==
    Plus(SelectSeq([j \in 1..Len(row) |-> j], LAMBDA j : row[j] = x), -1)

\* the indices boundary_facets returns, self's f2t read
boundary_of(m) == nonzero_eq(m._f2t[2], -1)

\* <<self, the indices returned>>, self's f2t read
boundary_on(m) == <<m, boundary_of(m)>>

\* BaseMesh.boundary_facets: <<self after the call, the indices returned>>
boundary_facets(m) == boundary_on(with_f2t(m))

\* np.unique of a set of non-negative integers: ascending
Ascending(S) ==
    SelectSeq([j \in 1..(IF S = {} THEN 0 ELSE 1 + CHOOSE x \in S : \A y \in S : y <= x)
                 |-> j - 1],
              LAMBDA x : x \in S)

\* boundary_edges: the pairs (facets[itr], facets[(itr + 1) % nv]) of each
\* boundary facet, each pair sorted (np.sort(..., axis=1))
boundary_pairs(m, facets) ==
    ConcatAll([itr \in 1..Len(m._facets) |->
        Vec([k \in 1..Len(facets) |->
            SortCol(<<m._facets[itr][facets[k] + 1],
                      m._facets[(itr % Len(m._facets)) + 1][facets[k] + 1]>>)])])

\* edge_candidates = np.unique(self.t2e[:, self.f2t[0, facets]])
edge_candidates_of(m, facets) ==
    Ascending({m._t2e[i][m._f2t[1][facets[k] + 1] + 1] :
                  i \in 1..Len(m._t2e), k \in 1..Len(facets)})

\* dims = A.max(0) + 1
dims_of(A) ==
    <<1 + CHOOSE x \in {A[k][1] : k \in 1..Len(A)} : \A k \in 1..Len(A) : A[k][1] <= x,
      1 + CHOOSE x \in {A[k][2] : k \in 1..Len(A)} : \A k \in 1..Len(A) : A[k][2] <= x>>

\* np.ravel_multi_index of one row
ravel(c, dims) == c[1] * dims[2] + c[2]

\* edge_candidates[ix], ix the rows of A whose index is among those of B;
\* np.ravel_multi_index raises ValueError for a coordinate outside dims
edges_in(edge_candidates, A, B, dims) ==
    IF \E k \in 1..Len(B) : B[k][1] >= dims[1] \/ B[k][2] >= dims[2]
    THEN [err |-> "ValueError", val |-> <<>>]
    ELSE [err |-> "",
          val |-> SelectSeq(edge_candidates,
                     LAMBDA c : \E k \in 1..Len(A) :
                         /\ edge_candidates[k] = c
                         /\ \E j \in 1..Len(B) : ravel(A[k], dims) = ravel(B[j], dims))]

edges_among(edge_candidates, A, B) == edges_in(edge_candidates, A, B, dims_of(A))

\* A = self.edges[:, edge_candidates].T, in the table's stored vertex order
edges_matching(m, edge_candidates, B) ==
    edges_among(edge_candidates,
                Vec([k \in 1..Len(edge_candidates) |-> Col(m._edges, edge_candidates[k])]),
                B)

\* what boundary_edges returns, self's f2t, facets, t2e and edges read
boundary_edges_of(m, facets) ==
    edges_matching(m, edge_candidates_of(m, facets), boundary_pairs(m, facets))

boundary_edges_on(m) == <<m, boundary_edges_of(m, boundary_of(m))>>

\* BaseMesh.boundary_edges: <<self after the call, [err, val]>>
boundary_edges(m) == boundary_edges_on(with_t2e(with_facets(with_f2t(m))))

-----------------------------------------------------------------------------
(* The meshes a run starts from *)

\* the most uniform refinements one call asks for
MaxTimes == 2

\* refined(k) is taken only when the mesh it returns has at most this many elements
MaxElems == 64

\* an array from its columns
FromCols(cols) == Arr([i \in 1..Len(cols[1]) |-> [e \in 1..Len(cols) |-> cols[e][i]]])

Perms3 == << <<1, 2, 3>>, <<2, 3, 1>>, <<3, 1, 2>>, <<1, 3, 2>>, <<3, 2, 1>>, <<2, 1, 3>> >>

\* the elements with local order Perms3[(r + s * e) % 6] given to element e
Reordered(cols, r, s) ==
    Arr([e \in 1..Len(cols) |->
        [i \in 1..3 |-> cols[e][Perms3[((r + s * (e - 1)) % 6) + 1][i]]]])

\* two point sets: right isosceles triangles (the longest edge is unique), and
\* isosceles triangles whose two longest edges are equal
TriPointsA == << <<0, 16, 0, 16, 32>>, <<0, 0, 16, 16, 0>> >>
TriPointsB == << <<0, 16, 8, 24, 32>>, <<0, 0, 32, 32, 0>> >>
\* a square with its centre
TriPointsC == << <<0, 32, 32, 0, 16>>, <<0, 0, 32, 32, 16>> >>

FirstCols(p, n) == Arr([d \in 1..Len(p) |-> SubSeq(p[d], 1, n)])

TriOne == << <<0, 1, 2>> >>
TriTwo == << <<0, 1, 2>>, <<1, 3, 2>> >>
TriStrip == << <<0, 1, 2>>, <<1, 3, 2>>, <<1, 4, 3>> >>
TriFan == << <<0, 1, 4>>, <<1, 2, 4>>, <<2, 3, 4>>, <<3, 0, 4>> >>

TriMeshes ==
    {[elem |-> "tri", doflocs |-> FirstCols(P, 3), t |-> FromCols(Reordered(TriOne, r, 0))] :
        P \in {TriPointsA, TriPointsB}, r \in 0..5}
    \cup
    {[elem |-> "tri", doflocs |-> FirstCols(P, 4), t |-> FromCols(Reordered(TriTwo, r, s))] :
        P \in {TriPointsA, TriPointsB}, r \in 0..5, s \in 0..2}
    \cup
    {[elem |-> "tri", doflocs |-> P, t |-> FromCols(Reordered(TriStrip, r, s))] :
        P \in {TriPointsA, TriPointsB}, r \in 0..5, s \in 0..1}
    \cup
    {[elem |-> "tri", doflocs |-> TriPointsC, t |-> FromCols(Reordered(TriFan, r, s))] :
        r \in 0..5, s \in 0..1}

\* quadrilaterals: one square, two squares side by side, a 2 x 2 block; each
\* element listed counter-clockwise or clockwise from any of its corners
QuadPointsA == << <<0, 64, 64, 0, 128, 128>>, <<0, 0, 64, 64, 0, 64>> >>
QuadPointsB == << <<0, 64, 128, 0, 64, 128, 0, 64, 128>>,
                  <<0, 0, 0, 64, 64, 64, 128, 128, 128>> >>

QuadOne == << <<0, 1, 2, 3>> >>
QuadTwo == << <<0, 1, 2, 3>>, <<1, 4, 5, 2>> >>
QuadBlock == << <<0, 1, 4, 3>>, <<1, 2, 5, 4>>, <<3, 4, 7, 6>>, <<4, 5, 8, 7>> >>

\* element e's corners started at corner r + s * e, reversed when flip
Turned(cols, r, s, flip) ==
    Arr([e \in 1..Len(cols) |->
        [i \in 1..4 |->
            cols[e][(((IF flip THEN 4 - (i - 1) ELSE i - 1) + r + s * (e - 1)) % 4) + 1]]])

QuadMeshes ==
    {[elem |-> "quad", doflocs |-> FirstCols(QuadPointsA, 4),
      t |-> FromCols(Turned(QuadOne, r, 0, flip))] : r \in 0..3, flip \in BOOLEAN}
    \cup
    {[elem |-> "quad", doflocs |-> QuadPointsA,
      t |-> FromCols(Turned(QuadTwo, r, s, flip))] : r \in 0..3, s \in 0..1, flip \in BOOLEAN}
    \cup
    {[elem |-> "quad", doflocs |-> QuadPointsB,
      t |-> FromCols(Turned(QuadBlock, r, s, FALSE))] : r \in 0..1, s \in 0..1}

\* tetrahedra: the corner of a cube, a flat one whose projected diagonals are
\* all different, MeshTet1's default five in a cube, two sharing a face
TetPointsA == << <<0, 0, 0, 16>>, <<0, 0, 16, 0>>, <<0, 16, 0, 0>> >>
TetPointsB == << <<0, 16, 0, 4>>, <<0, 0, 32, 4>>, <<0, 0, 0, 8>> >>
TetPointsC == << <<0, 0, 0, 16, 0, 16, 16, 16>>,
                 <<0, 0, 16, 0, 16, 0, 16, 16>>,
                 <<0, 16, 0, 0, 16, 16, 0, 16>> >>
TetPointsD == << <<0, 16, 0, 0, 0>>, <<0, 0, 16, 0, 0>>, <<0, 0, 0, 16, -16>> >>

TetOne == << <<0, 1, 2, 3>> >>
TetFive == << <<0, 1, 2, 3>>, <<3, 5, 1, 7>>, <<2, 3, 6, 7>>, <<2, 3, 1, 7>>, <<1, 2, 4, 7>> >>
TetTwo == << <<0, 1, 2, 3>>, <<0, 1, 2, 4>> >>

Perms4 == {q \in [1..4 -> 1..4] : \A i, j \in 1..4 : q[i] = q[j] => i = j}

\* every element in the local order q
Permuted(cols, q) == Arr([e \in 1..Len(cols) |-> [i \in 1..Len(q) |-> cols[e][q[i]]]])

TetMeshes ==
    {[elem |-> "tet", doflocs |-> P, t |-> FromCols(Permuted(TetOne, q))] :
        P \in {TetPointsA, TetPointsB}, q \in Perms4}
    \cup
    {[elem |-> "tet", doflocs |-> TetPointsC, t |-> FromCols(TetFive)]}
    \cup
    {[elem |-> "tet", doflocs |-> TetPointsD, t |-> FromCols(Permuted(TetTwo, q))] :
        q \in {<<1, 2, 3, 4>>, <<4, 3, 2, 1>>, <<2, 4, 1, 3>>}}

\* hexahedra: MeshHex1's default cube and two cubes sharing a face, in the
\* reference numbering and in two renumberings that are symmetries of the cube
\* (the axes rotated, x mirrored)
HexPointsA == << <<0, 0, 0, 64, 0, 64, 64, 64, 128, 128, 128, 128>>,
                 <<0, 0, 64, 0, 64, 0, 64, 64, 0, 0, 64, 64>>,
                 <<0, 64, 0, 0, 64, 64, 0, 64, 0, 64, 0, 64>> >>

HexOne == << <<0, 1, 2, 3, 4, 5, 6, 7>> >>
HexTwo == << <<0, 1, 2, 3, 4, 5, 6, 7>>, <<3, 5, 6, 8, 7, 9, 10, 11>> >>

HexSymmetries == {<<1, 2, 3, 4, 5, 6, 7, 8>>, <<1, 4, 2, 3, 6, 7, 5, 8>>,
                  <<4, 6, 7, 1, 8, 2, 3, 5>>}

HexMeshes ==
    {[elem |-> "hex", doflocs |-> FirstCols(HexPointsA, 8),
      t |-> FromCols(Permuted(HexOne, q))] : q \in HexSymmetries}
    \cup
    {[elem |-> "hex", doflocs |-> HexPointsA,
      t |-> FromCols(Permuted(HexTwo, q))] : q \in HexSymmetries}

InitialMeshes == TriMeshes \cup QuadMeshes \cup TetMeshes \cup HexMeshes

-----------------------------------------------------------------------------
(* The instance and the calls made on it *)

Self ==
    [elem |-> elem, doflocs |-> doflocs, t |-> t,
     _facets |-> _facets, _t2f |-> _t2f, _f2t |-> _f2t, _edges |-> _edges, _t2e |-> _t2e]

\* the instance becomes m (what a call left of self)
Becomes(m) ==
    /\ elem' = m.elem
    /\ doflocs' = m.doflocs
    /\ t' = m.t
    /\ _facets' = m._facets
    /\ _t2f' = m._t2f
    /\ _f2t' = m._f2t
    /\ _edges' = m._edges
    /\ _t2e' = m._t2e

NoRet == [op |-> "", arg |-> <<>>, err |-> "", doflocs |-> <<>>, t |-> <<>>, val |-> <<>>]

Snapshot == [doflocs |-> doflocs, t |-> t]

nelements(m) == ncols(m.t)

\* elements per element of one uniform refinement
Children(el) == IF dim(el) = 2 THEN 4 ELSE 8

RECURSIVE Pow(_, _)
Pow(b, n) == IF n = 0 THEN 1 ELSE b * Pow(b, n - 1)

Init ==
    /\ \E m \in InitialMeshes :
          /\ elem = m.elem
          /\ doflocs = m.doflocs
          /\ t = m.t
    /\ _facets = <<>>
    /\ _t2f = <<>>
    /\ _f2t = <<>>
    /\ _edges = <<>>
    /\ _t2e = <<>>
    /\ pc = "idle"
    /\ ret = NoRet
    /\ old = Snapshot

\* the call leaves self as m and hands the caller a value
Returns(m, value) ==
    /\ Becomes(m)
    /\ ret' = value
    /\ old' = Snapshot
    /\ pc' = "returned"

\* what a call that returns a mesh hands the caller
Returned(op, arg, new) == [NoRet EXCEPT !.op = op, !.arg = arg, !.doflocs = new.doflocs, !.t = new.t]

\* what a call that raises hands the caller
Raised(op, arg, err) == [NoRet EXCEPT !.op = op, !.arg = arg, !.err = err]

\* a call on a mesh, r = <<self after the call, the mesh returned>>
ReturnsMesh(op, arg, r) == Returns(r[1], Returned(op, arg, r[2]))

\* a read of the property facets
ReadFacets ==
    /\ pc = "idle"
    /\ Becomes(with_facets(Self))
    /\ UNCHANGED <<pc, ret, old>>

\* a read of the property t2f
ReadT2f ==
    /\ pc = "idle"
    /\ Becomes(with_t2f(Self))
    /\ UNCHANGED <<pc, ret, old>>

\* a read of the property f2t
ReadF2t ==
    /\ pc = "idle"
    /\ Becomes(with_f2t(Self))
    /\ UNCHANGED <<pc, ret, old>>

\* refined(times) with an int
Refined ==
    /\ pc = "idle"
    /\ \E times \in 0..MaxTimes :
          /\ nelements(Self) * Pow(Children(elem), times) <= MaxElems
          /\ ReturnsMesh("refined", times, refined_int(Self, times))

\* refined(ix) with an array of element indices: _adaptive, which only
\* MeshTri1 defines (BaseMesh._adaptive raises NotImplementedError)
RefinedAdaptive ==
    /\ pc = "idle"
    /\ \E marked \in SUBSET (0..(nelements(Self) - 1)) :
          IF elem = "tri"
          THEN ReturnsMesh("adaptive", marked, MeshTri1_adaptive(Self, marked))
          ELSE Returns(Self, Raised("adaptive", marked, "NotImplementedError"))

\* a read of the property edges (3-D families)
ReadEdges ==
    /\ pc = "idle"
    /\ dim(elem) = 3
    /\ Becomes(with_edges(Self))
    /\ UNCHANGED <<pc, ret, old>>

\* a read of the property t2e (3-D families)
ReadT2e ==
    /\ pc = "idle"
    /\ dim(elem) = 3
    /\ Becomes(with_t2e(Self))
    /\ UNCHANGED <<pc, ret, old>>

\* the operands of scaled and translated: the first n of these, for every
\* length n up to one more than the spatial dimension
Operand(n) == SubSeq(<<2, 3, 5, 7>>, 1, n)

\* scaled and translated return replace(self, doflocs=...) or raise
Moved(op, arg, r) ==
    Returns(Self, [NoRet EXCEPT !.op = op, !.arg = arg, !.err = r.err, !.doflocs = r.doflocs,
                                !.t = IF r.err = "" THEN t ELSE <<>>])

\* scaled(factors)
Scaled ==
    /\ pc = "idle"
    /\ \E n \in 0..(dim(elem) + 1) : Moved("scaled", Operand(n), scaled(Self, Operand(n)))

\* translated(diffs)
Translated ==
    /\ pc = "idle"
    /\ \E n \in 0..(dim(elem) + 1) :
          Moved("translated", Operand(n), translated(Self, Operand(n)))

\* a call that returns an index array, r = <<self after the call, the array>>
Listed(op, r) == Returns(r[1], [NoRet EXCEPT !.op = op, !.val = r[2]])

\* boundary_facets()
BoundaryFacets ==
    /\ pc = "idle"
    /\ Listed("boundary_facets", boundary_facets(Self))

\* a call that returns an index array or raises,
\* r = <<self after the call, [err, val]>>
Answered(op, r) == Returns(r[1], [NoRet EXCEPT !.op = op, !.err = r[2].err, !.val = r[2].val])

\* boundary_edges() (3-D families)
BoundaryEdges ==
    /\ pc = "idle"
    /\ dim(elem) = 3
    /\ Answered("boundary_edges", boundary_edges(Self))

\* the caller is done with what the call returned
Return ==
    /\ pc = "returned"
    /\ pc' = "idle"
    /\ ret' = NoRet
    /\ old' = Snapshot
    /\ UNCHANGED <<elem, doflocs, t, _facets, _t2f, _f2t, _edges, _t2e>>

Next ==
    \/ ReadFacets
    \/ ReadT2f
    \/ ReadF2t
    \/ ReadEdges
    \/ ReadT2e
    \/ Refined
    \/ Scaled
    \/ Translated
    \/ BoundaryFacets
    \/ BoundaryEdges
    \/ RefinedAdaptive
    \/ Return

Spec == Init /\ [][Next]_vars

-----------------------------------------------------------------------------
(* Connectivity of any shape for the entity builder and the inverse mapper: *)
(* elements in any local order, repeated, or three and more around a facet  *)

\* the most elements such a connectivity has
MaxCols == 3

EntityColumns(el) ==
    IF el = "tri"
    THEN << <<0, 1, 2>>, <<1, 0, 3>>, <<4, 1, 0>>, <<2, 3, 1>>, <<3, 2, 4>>, <<2, 1, 0>> >>
    ELSE << <<0, 1, 2, 3>>, <<1, 0, 2, 4>>, <<2, 1, 0, 5>>, <<3, 2, 1, 4>>, <<4, 3, 5, 2>> >>

EntityPoints(el) == IF el = "tri" THEN TriPointsA ELSE FirstCols(TetPointsC, 6)

InitEntities ==
    /\ \E el \in {"tri", "tet"}, n \in 1..MaxCols :
          \E pick \in [1..n -> 1..Len(EntityColumns(el))] :
              /\ elem = el
              /\ doflocs = EntityPoints(el)
              /\ t = FromCols([k \in 1..n |-> EntityColumns(el)[pick[k]]])
    /\ _facets = <<>>
    /\ _t2f = <<>>
    /\ _f2t = <<>>
    /\ _edges = <<>>
    /\ _t2e = <<>>
    /\ pc = "idle"
    /\ ret = NoRet
    /\ old = Snapshot

NextEntities ==
    \/ ReadFacets
    \/ ReadT2f
    \/ ReadF2t
    \/ ReadEdges
    \/ ReadT2e
    \/ BoundaryFacets
    \/ Return

SpecEntities == InitEntities /\ [][NextEntities]_vars

-----------------------------------------------------------------------------
(* The choice of the octahedron diagonal for any three diagonals *)

\* the largest projected squared diagonal tried
MaxDiag == 3

InitCases ==
    /\ \E m \in TetMeshes :
          /\ elem = m.elem
          /\ doflocs = m.doflocs
          /\ t = m.t
    /\ _facets = <<>>
    /\ _t2f = <<>>
    /\ _f2t = <<>>
    /\ _edges = <<>>
    /\ _t2e = <<>>
    /\ pc = "idle"
    /\ ret = NoRet
    /\ old = Snapshot

\* c1, c2, c3 computed from d1, d2, d3, as _uniform does for each element
Diagonals ==
    /\ pc = "idle"
    /\ \E d1, d2, d3 \in 0..MaxDiag :
          Returns(Self, [NoRet EXCEPT !.op = "tet_case", !.arg = <<d1, d2, d3>>,
                                      !.val = tet_case(d1, d2, d3)])

NextCases ==
    \/ Diagonals
    \/ Return

SpecCases == InitCases /\ [][NextCases]_vars

-----------------------------------------------------------------------------
(* Incidence counted directly from a connectivity array *)

\* the vertex set a local pattern selects in element e (a 1-based column)
Selected(tt, pat, e) == {tt[pat[j] + 1][e] : j \in 1..Len(pat)}

\* the facets of element e, as vertex sets
FacetsOf(el, tt, e) ==
    {Selected(tt, refdom_facets(el)[i], e) : i \in 1..Len(refdom_facets(el))}

AllFacets(el, tt) == UNION {FacetsOf(el, tt, e) : e \in 1..ncols(tt)}

\* the elements (0-based) a facet is a facet of
Owners(el, tt, F) == {e - 1 : e \in {k \in 1..ncols(tt) : F \in FacetsOf(el, tt, k)}}

Conforming(el, tt) == \A F \in AllFacets(el, tt) : Cardinality(Owners(el, tt, F)) <= 2

Boundary(el, tt) == {F \in AllFacets(el, tt) : Cardinality(Owners(el, tt, F)) = 1}

\* vertex v lies midway between vertices a and b
IsMid(p, v, a, b) == \A d \in 1..Len(p) : 2 * p[d][v + 1] = p[d][a + 1] + p[d][b + 1]

\* facet G shrunk by half towards its vertex a: a and the new vertices (index
\* n or more) midway between a and the other vertices of G
Shrunk(G, a, p, n) ==
    {a} \cup {v \in n..(ncols(p) - 1) : \E x \in G \ {a} : IsMid(p, v, a, x)}

\* the triangle of the midpoints of the sides of a triangular facet
Middle(G, p, n) ==
    {v \in n..(ncols(p) - 1) : \E x, y \in G : x # y /\ IsMid(p, v, x, y)}

\* F is one of the pieces refinement cuts facet G into: a half of an edge, a
\* quarter of a quadrilateral, a corner or the middle of a triangle
Child(F, G, p, n) ==
    \/ \E a \in G : F = Shrunk(G, a, p, n)
    \/ Cardinality(G) = 3 /\ F = Middle(G, p, n)

\* a call has returned a mesh
Gave(op) == pc = "returned" /\ ret.op = op /\ ret.err = ""

-----------------------------------------------------------------------------
(* Claims *)

\* C1: adaptive refinement of a conforming triangle mesh, whatever elements
\* are marked, returns a mesh in which no facet has more than two owners and
\* every facet with one owner is a boundary facet of the source or a half of
\* one: no half of an interior source edge is left with a single owner.
NoHangingNodes ==
    (Gave("adaptive") /\ Conforming("tri", old.t)) =>
        \A F \in AllFacets("tri", ret.t) :
            /\ Cardinality(Owners("tri", ret.t, F)) <= 2
            /\ Cardinality(Owners("tri", ret.t, F)) = 1 =>
                  \E G \in Boundary("tri", old.t) :
                      F = G \/ Child(F, G, ret.doflocs, ncols(old.doflocs))

\* a marked element next to an unmarked one of a mesh of three or more: the
\* neighbour is split although it was not marked
NoHangingNodesWitness ==
    /\ Gave("adaptive")
    /\ ncols(old.t) >= 3
    /\ Cardinality(ret.arg) = 1
    /\ ncols(ret.t) > ncols(old.t) + 3
    /\ ncols(ret.t) < 4 * ncols(old.t)

\* the entity tables the instance holds are those of its connectivity
TablesCurrent ==
    /\ hasattr(_facets) => <<_facets, _t2f>> = build_entities(t, refdom_facets(elem))
    /\ hasattr(_edges) => <<_edges, _t2e>> = build_entities(t, refdom_edges(elem))

RefinedCount ==
    Gave("refined") =>
        ncols(ret.t) = ncols(old.t) * Pow(IF dim(elem) = 2 THEN 4 ELSE 8, ret.arg)

\* a tetrahedron whose three diagonals are all equal, refined once
RefinedCountWitness ==
    /\ Gave("refined")
    /\ ret.arg = 1
    /\ elem = "tet"
    /\ \E e \in 1..ncols(t) :
          /\ tet_diagonal(ret.doflocs, Arr([i \in 1..6 |-> Plus(_t2e[i], ncols(doflocs))]), 2, 4, e)
               = tet_diagonal(ret.doflocs, Arr([i \in 1..6 |-> Plus(_t2e[i], ncols(doflocs))]), 1, 3, e)
          /\ tet_diagonal(ret.doflocs, Arr([i \in 1..6 |-> Plus(_t2e[i], ncols(doflocs))]), 1, 3, e)
               = tet_diagonal(ret.doflocs, Arr([i \in 1..6 |-> Plus(_t2e[i], ncols(doflocs))]), 0, 5, e)
    /\ ncols(ret.t) = 8 * ncols(t)

\* the elements that contain facet f (0-based) of the instance's facet table
OwnersOfFacet(f) == Owners(elem, t, Range(Col(_facets, f)))

\* C4: when no facet is shared by more than two elements, the f2t that
\* build_inverse builds has, for every facet f, f2t[0, f] an element that
\* contains f, f2t[1, f] = -1 exactly when one element contains f, and
\* otherwise f2t[0, f], f2t[1, f] the two distinct elements that contain f;
\* boundary_facets() returns exactly the facets with one incident element.
InverseCorrect ==
    Conforming(elem, t) =>
        /\ hasattr(_f2t) =>
              \A f \in 0..(ncols(_facets) - 1) :
                  /\ _f2t[1][f + 1] \in OwnersOfFacet(f)
                  /\ _f2t[2][f + 1] = -1 <=> Cardinality(OwnersOfFacet(f)) = 1
                  /\ _f2t[2][f + 1] # -1 =>
                        /\ Cardinality(OwnersOfFacet(f)) = 2
                        /\ OwnersOfFacet(f) = {_f2t[1][f + 1], _f2t[2][f + 1]}
        /\ Gave("boundary_facets") =>
              Range(ret.val) = {f \in 0..(ncols(_facets) - 1) :
                                   Cardinality(OwnersOfFacet(f)) = 1}

\* boundary_facets() has returned on three elements of which two share a facet
InverseCorrectWitness ==
    /\ Gave("boundary_facets")
    /\ Conforming(elem, t)
    /\ ncols(t) = 3
    /\ \E f \in 0..(ncols(_facets) - 1) : Cardinality(OwnersOfFacet(f)) = 2
    /\ ret.val # <<>>
    /\ Len(ret.val) < ncols(_facets)

\* table and map are one entity per vertex set that the patterns select in tt
ByVertexSet(tt, patterns, table, map) ==
    /\ \A i, j \in 1..Len(patterns) : \A e, g \in 1..ncols(tt) :
          map[i][e] = map[j][g]
              <=> Selected(tt, patterns[i], e) = Selected(tt, patterns[j], g)
    /\ ncols(table) = Cardinality({Selected(tt, patterns[i], e) :
                                      i \in 1..Len(patterns), e \in 1..ncols(tt)})
    /\ \A i \in 1..Len(patterns) : \A e \in 1..ncols(tt) :
          Range(Col(table, map[i][e])) = Selected(tt, patterns[i], e)

\* C5: build_entities deduplicates by vertex set: two (element, pattern)
\* pairs get the same index exactly when they select the same vertex set, the
\* table has one column per distinct vertex set, and the column at
\* map[i, e] has the vertex set pattern i selects in element e.
EntitiesByVertexSet ==
    /\ hasattr(_facets) => ByVertexSet(t, refdom_facets(elem), _facets, _t2f)
    /\ hasattr(_edges) => ByVertexSet(t, refdom_edges(elem), _edges, _t2e)

\* the facets of elements that list a shared vertex set in different orders
EntitiesByVertexSetWitness ==
    /\ hasattr(_facets)
    /\ \E i, j \in 1..Len(_t2f) : \E e, g \in 1..ncols(t) :
          /\ e # g
          /\ _t2f[i][e] = _t2f[j][g]
          /\ [k \in 1..Len(refdom_facets(elem)[i]) |-> t[refdom_facets(elem)[i][k] + 1][e]]
               # [k \in 1..Len(refdom_facets(elem)[j]) |-> t[refdom_facets(elem)[j][k] + 1][g]]

\* C6: refinement does not mutate its source: after m.refined(k) and after
\* m.refined(marked), m's coordinate array and connectivity array hold the
\* values they held before the call, in the same positions.
SourceUnchanged ==
    (Gave("refined") \/ Gave("adaptive")) => (doflocs = old.doflocs /\ t = old.t)

\* C7 as stated: _adaptive with an empty marked set returns a mesh whose
\* coordinate array and connectivity array are equal, entry by entry, to the
\* source's arrays as they were before the call (same local vertex order).
EmptyMarkedIdentical ==
    (Gave("adaptive") /\ ret.arg = {}) => (ret.doflocs = old.doflocs /\ ret.t = old.t)

\* C7, amended: _adaptive with an empty marked set returns a mesh whose
\* coordinate array equals the source's entry by entry and whose connectivity
\* has the same elements in the same order, each with the vertex set it had
\* before the call; the local vertex order of an element may differ.
EmptyMarkedSameElements ==
    (Gave("adaptive") /\ ret.arg = {}) =>
        /\ ret.doflocs = old.doflocs
        /\ Len(ret.t) = Len(old.t)
        /\ ncols(ret.t) = ncols(old.t)
        /\ \A e \in 0..(ncols(old.t) - 1) : Range(Col(ret.t, e)) = Range(Col(old.t, e))

\* nothing marked in a mesh of several triangles, and an element comes back
\* in another local order
EmptyMarkedSameElementsWitness ==
    /\ Gave("adaptive")
    /\ ret.arg = {}
    /\ ncols(old.t) >= 2
    /\ ret.t # old.t

\* C8: scaled(factors) and translated(diffs) signal an error for every
\* operand whose length differs from the spatial dimension, shorter or
\* longer, and return a mesh with the source's number of coordinate rows only
\* when the length matches.
OperandLengthChecked ==
    (pc = "returned" /\ ret.op \in {"scaled", "translated"}) =>
        /\ Len(ret.arg) # dim(elem) => ret.err # ""
        /\ (ret.err = "" /\ Len(ret.doflocs) = Len(old.doflocs)) => Len(ret.arg) = dim(elem)

\* C9: on a 3-D mesh, whatever the numbering of the vertices inside each
\* element, boundary_edges() returns without error exactly the indices of
\* the edges that are a side of a boundary facet.
BoundaryEdgesExact ==
    (pc = "returned" /\ ret.op = "boundary_edges") =>
        /\ ret.err = ""
        /\ Range(ret.val) =
              {k \in 0..(ncols(_edges) - 1) :
                  \E F \in Boundary(elem, t) : Range(Col(_edges, k)) \subseteq F}

\* C10: after sort_mesh, which leaves its result in the instance's t, the
\* edge between local vertices 0 and 2 of every triangle is at least as long
\* as each of its other two edges, ties included, and every element has the
\* set of three vertices it had before.
LongestEdgeInSlot ==
    Gave("adaptive") =>
        \A e \in 1..ncols(t) :
            /\ sqlen(doflocs, t, 0, 2, e) >= sqlen(doflocs, t, 0, 1, e)
            /\ sqlen(doflocs, t, 0, 2, e) >= sqlen(doflocs, t, 1, 2, e)
            /\ Range(Col(t, e - 1)) = Range(Col(old.t, e - 1))

-----------------------------------------------------------------------------
(* The propagation of adaptive refinement, seen from the state a call of    *)
(* refined(marked) leaves: the instance's t is the canonicalized array that *)
(* sorted_mesh was built over, and ret.arg is the marked set.               *)

\* sorted_mesh, its facets and t2f read
SortedMesh == with_facets(Mesh(elem, doflocs, t))

\* the facets (0-based) an array of flags flags
FlaggedIn(facets) == {f \in 0..(Len(facets) - 1) : facets[f + 1] = 1}

\* the edges of the marked triangles
MarkedEdges(m, marked) == {m._t2f[i][e + 1] : i \in 1..3, e \in marked}

\* the smallest set that contains S and, for every triangle with at least
\* two of its three local edges in the set, its local edge 2
RECURSIVE ClosedUnderTwo(_, _)
ClosedUnderTwo(m, S) ==
    LET more == {m._t2f[3][e] :
                    e \in {k \in 1..ncols(m.t) :
                              Cardinality({i \in 1..3 : m._t2f[i][k] \in S}) >= 2}}
    IN  IF more \subseteq S THEN S ELSE ClosedUnderTwo(m, S \cup more)

\* the smallest set that contains S and, for every triangle with its local
\* edge 0 or its local edge 1 in the set, its local edge 2
RECURSIVE ClosedUnderOne(_, _)
ClosedUnderOne(m, S) ==
    LET more == {m._t2f[3][e] :
                    e \in {k \in 1..ncols(m.t) :
                              m._t2f[1][k] \in S \/ m._t2f[2][k] \in S}}
    IN  IF more \subseteq S THEN S ELSE ClosedUnderOne(m, S \cup more)

\* C11 as stated: the edges flagged when find_facets ends are exactly the
\* smallest set that contains the three edges of every marked triangle and
\* is closed under: at least two of a triangle's three local edges flagged
\* implies its local edge 2 flagged.
FlaggedIsClosureOfTwo ==
    Gave("adaptive") =>
        FlaggedIn(find_facets(SortedMesh, ret.arg))
          = ClosedUnderTwo(SortedMesh, MarkedEdges(SortedMesh, ret.arg))

\* C11, amended: the edges flagged when find_facets ends are exactly the
\* smallest set that contains the three edges of every marked triangle and
\* is closed under: local edge 0 or local edge 1 of a triangle flagged
\* implies its local edge 2 flagged.
FlaggedIsClosureOfOne ==
    Gave("adaptive") =>
        FlaggedIn(find_facets(SortedMesh, ret.arg))
          = ClosedUnderOne(SortedMesh, MarkedEdges(SortedMesh, ret.arg))

\* a marked triangle whose neighbour has one flagged edge, not its edge 2:
\* the neighbour's edge 2 is flagged although only one of its edges was
FlaggedIsClosureOfOneWitness ==
    /\ Gave("adaptive")
    /\ ret.arg # {}
    /\ \E e \in 1..ncols(t) :
          /\ (e - 1) \notin ret.arg
          /\ Cardinality({i \in 1..3 :
                SortedMesh._t2f[i][e] \in MarkedEdges(SortedMesh, ret.arg)}) = 1
          /\ SortedMesh._t2f[3][e] \notin MarkedEdges(SortedMesh, ret.arg)
          /\ SortedMesh._t2f[3][e] \in FlaggedIn(find_facets(SortedMesh, ret.arg))

\* the flags at each evaluation of find_facets' loop condition in the call
\* that has returned
Passes == find_trace(SortedMesh._t2f, find_start(SortedMesh, ret.arg), -1)

\* C12: find_facets terminates for every triangle mesh and marked set: from
\* one iteration to the next the flagged set never loses an edge, every
\* iteration but the last flags a new edge and the last flags none, and
\* there are at most (number of edges) + 1 iterations.
PropagationTerminates ==
    Gave("adaptive") =>
        /\ Len(Passes) >= 2
        /\ Passes[Len(Passes)] = find_facets(SortedMesh, ret.arg)
        /\ \A k \in 1..(Len(Passes) - 1) :
              FlaggedIn(Passes[k]) \subseteq FlaggedIn(Passes[k + 1])
        /\ \A k \in 1..(Len(Passes) - 2) : Passes[k] # Passes[k + 1]
        /\ Passes[Len(Passes) - 1] = Passes[Len(Passes)]
        /\ Len(Passes) - 1 <= ncols(SortedMesh._facets) + 1

\* a call in which the flags spread over two passes and a third finds
\* nothing new
PropagationTerminatesWitness ==
    /\ Gave("adaptive")
    /\ Len(Passes) = 4
    /\ FlaggedIn(Passes[1]) # {}
    /\ FlaggedIn(Passes[1]) # FlaggedIn(Passes[3])

\* the buckets element e (a 1-based column) is in, ix the new-vertex index
\* (or -1) split_elements gave each local edge
BucketsOf(ix, e) ==
    {b \in {"rest", "green", "blue1", "blue2", "red"} :
        CASE b = "rest"  -> split_rest(ix)[e]
          [] b = "green" -> split_green(ix)[e]
          [] b = "blue1" -> split_blue1(ix)[e]
          [] b = "blue2" -> split_blue2(ix)[e]
          [] b = "red"   -> split_red(ix)[e]}

\* the number of elements a bucket emits per source element
Emits(b) == CASE b = "rest" -> 1 [] b = "green" -> 2 [] b = "red" -> 4 [] OTHER -> 3

\* the columns of the returned connectivity made of vertices of source
\* element e and of the new vertices on its edges
Pieces(ix, e) ==
    {k \in 1..ncols(ret.t) :
        Range(Col(ret.t, k - 1))
            \subseteq (Range(Col(t, e - 1)) \cup {ix[i][e] : i \in 1..3}) \ {-1}}

\* twice the area of the triangle whose vertices (0-based) are c
TwiceArea(p, c) ==
    LET x(v) == p[1][v + 1]
        y(v) == p[2][v + 1]
        det == (x(c[2]) - x(c[1])) * (y(c[3]) - y(c[1]))
             - (x(c[3]) - x(c[1])) * (y(c[2]) - y(c[1]))
    IN  IF det < 0 THEN -det ELSE det

\* what C13 says of a call that has returned, m the sorted mesh, flags what
\* find_facets ended with and ix split_elements' new-vertex indices
Partitioned(m, flags, ix) ==
    /\ \A e \in 1..ncols(t) :
          (flags[m._t2f[1][e] + 1] = 1 \/ flags[m._t2f[2][e] + 1] = 1)
              => flags[m._t2f[3][e] + 1] = 1
    /\ \A e \in 1..ncols(t) :
          /\ Cardinality(BucketsOf(ix, e)) = 1
          /\ \A b \in BucketsOf(ix, e) : Cardinality(Pieces(ix, e)) = Emits(b)
          /\ SumSeq([k \in 1..ncols(ret.t) |->
                        IF k \in Pieces(ix, e)
                        THEN TwiceArea(ret.doflocs, Col(ret.t, k - 1)) ELSE 0])
               = TwiceArea(doflocs, Col(t, e - 1))
    /\ \A k \in 1..ncols(ret.t) :
          Cardinality({e \in 1..ncols(t) : k \in Pieces(ix, e)}) = 1
    /\ ncols(ret.t) =
          SumSeq([e \in 1..ncols(t) |-> Emits(CHOOSE b \in BucketsOf(ix, e) : TRUE)])
    /\ ncols(ret.doflocs) = ncols(old.doflocs) + Cardinality(FlaggedIn(flags))

PartitionedBy(m, flags) == Partitioned(m, flags, split_ix(m, flags))

PartitionedIn(m) == PartitionedBy(m, find_facets(m, ret.arg))

\* C13: when propagation ends every triangle whose local edge 0 or 1 is
\* flagged has local edge 2 flagged, so every triangle is in exactly one of
\* the buckets rest, green, blue-1, blue-2, red; no source element is dropped
\* or emitted twice (each is replaced by its bucket's number of pieces, which
\* cover its area, and every returned element is a piece of one source
\* element); the output has
\* |rest| + 2|green| + 3|blue-1| + 3|blue-2| + 4|red| elements and one new
\* vertex per flagged edge.
BucketsPartition == Gave("adaptive") => PartitionedIn(SortedMesh)

\* the buckets the elements of the call that has returned are in
BucketsUsed(ix) == UNION {BucketsOf(ix, e) : e \in 1..ncols(t)}

BucketsUsedIn(m) == BucketsUsed(split_ix(m, find_facets(m, ret.arg)))

\* one call that leaves an element whole, halves one and cuts one in four
BucketsPartitionWitness ==
    /\ Gave("adaptive")
    /\ {"rest", "green", "red"} \subseteq BucketsUsedIn(SortedMesh)

\* C14: for every triple of projected squared diagonals (d1, d2, d3) exactly
\* one of the cases c1, c2, c3 is selected, and the diagonal of the selected
\* case is no longer than either of the other two.
OneMinimalCase ==
    (pc = "returned" /\ ret.op = "tet_case") =>
        /\ Cardinality({c \in 1..3 : ret.val[c]}) = 1
        /\ \A c \in 1..3 : ret.val[c] => \A o \in 1..3 : ret.arg[c] <= ret.arg[o]

\* d1 and d2 tie for the shortest diagonal and case 2 is the one selected
OneMinimalCaseWitness ==
    /\ pc = "returned"
    /\ ret.op = "tet_case"
    /\ ret.arg[1] = ret.arg[2]
    /\ ret.arg[2] < ret.arg[3]
    /\ ret.val = <<FALSE, TRUE, FALSE>>

\* C15: over any sequence of reads of facets, t2f, f2t and calls of refined
\* with an integer or with a marked set, whenever t2f is cached, for every
\* element e and local facet slot i the cached facets[:, t2f[i, e]] has the
\* vertex set of local facet i of element e in the connectivity t the
\* instance holds, and a uniform refinement returns what it returns on an
\* instance built from the same doflocs and t on which nothing was run.
CacheConsistent ==
    /\ hasattr(_t2f) =>
          \A i \in 1..Len(refdom_facets(elem)) : \A e \in 1..ncols(t) :
              Range(Col(_facets, _t2f[i][e])) = Selected(t, refdom_facets(elem)[i], e)
    /\ (Gave("refined") /\ ret.arg = 1) =>
          ret.t = refined_int(Mesh(elem, old.doflocs, old.t), 1)[2].t

====
